---- MODULE Spec2Model ----
(***************************************************************************)
(* A model of src/flow.ts: the optional box Item, the lazy pipelines Flow  *)
(* and EntryFlow, and the asynchronous pipeline PromiseFlow.               *)
(*                                                                         *)
(* Iterators live in a heap (its): an array/Set iterator holds the         *)
(* elements it has not delivered yet, a generator stage (map, filter,      *)
(* peek, ...) holds the source list of the pipeline it closes over, its    *)
(* index counter and the position of its for..of loop.  A pipeline         *)
(* instance is its class and its list of heap iterators.                   *)
(***************************************************************************)
EXTENDS Integers, Sequences, FiniteSets, TLC

VARIABLES
  its,     \* the heap of iterators, addressed by position
  flows,   \* the pipeline instances: [cls, iterators]
  log,     \* the calls of caller-supplied functions made by the last operation
  last,    \* the last operation: what was called on what, and what it returned
  fresh,   \* the number of element values handed out to sources so far
  settled, \* the pending values that have settled
  task,    \* the asynchronous terminal operation in progress
  sync,    \* per PromiseFlow, the source list Flow builds by the same calls
  items,   \* the Item boxes created
  proms    \* the PromiseItems created, each with its settlement

vars == <<its, flows, log, last, fresh, settled, task, sync, items, proms>>

asyncVars == <<settled, task, sync, proms>>

(***************************************************************************)
(* Bounds of the model.                                                    *)
(***************************************************************************)
MaxLen == 2      \* longest source handed to of / append / prepend
MaxFlows == 3    \* pipeline instances created in one run
MaxPending == 4  \* pending values handed to the sources of PromiseFlows
MaxPairs == 4    \* longest pair sequence handed to collapseKeys / grouping
MaxItems == 2    \* Items built in one run
MaxProms == 2    \* PromiseItems built in one run

(***************************************************************************)
(* JavaScript values.  A value is a tag and a payload: a number carries    *)
(* itself, a string its characters, an array / Set / iterator its          *)
(* (numeric) elements in iteration order.                                  *)
(***************************************************************************)
Undef == [t |-> "undef", e |-> <<>>]
Null == [t |-> "null", e |-> <<>>]
N(n) == [t |-> "num", e |-> <<n>>]
Str(cs) == [t |-> "str", e |-> cs]
Arr(ns) == [t |-> "array", e |-> ns]
SetOf(ns) == [t |-> "set", e |-> ns]
Iter(ns) == [t |-> "iter", e |-> ns]
Obj(n) == [t |-> "obj", e |-> <<n>>]
Bool(b) == [t |-> "bool", e |-> <<IF b THEN 1 ELSE 0>>]
\* an iterator of pairs, a Map and a plain record, by their entries
Entries(ps) == [t |-> "entries", e |-> ps]
MapOf(ps) == [t |-> "map", e |-> ps]
Record(ps) == [t |-> "record", e |-> ps]

\* typeof v?.[Symbol.iterator] === 'function'
HasIterator(v) == v.t \in {"array", "set", "iter", "str", "entries", "map"}

\* the elements v[Symbol.iterator]() delivers
Iterate(v) ==
  IF v.t = "str" THEN [i \in 1..Len(v.e) |-> Str(<<v.e[i]>>)]
  ELSE IF v.t \in {"entries", "map"} THEN v.e
  ELSE [i \in 1..Len(v.e) |-> N(v.e[i])]

\* Object.entries(v) of a record with string keys that are not array indices
ObjectEntries(v) == v.e

\* ToBoolean(v)
Truthy(v) ==
  CASE v.t \in {"undef", "null"} -> FALSE
    [] v.t \in {"num", "bool"} -> v.e[1] # 0
    [] v.t = "str" -> v.e # <<>>
    [] OTHER -> TRUE

\* v == null
IsNullish(v) == v.t \in {"undef", "null"}

(***************************************************************************)
(* Heap iterators.                                                         *)
(***************************************************************************)
ArrayIterator(elems) ==
  [kind |-> "array", buf |-> elems, up |-> <<>>, fn |-> "", ex |-> "",
   key |-> Undef, idx |-> 0, cur |-> 0, st |-> "run"]

\* a generator closing over the pipeline whose sources are ups; not started
Generator(kind, ups, fn) ==
  [kind |-> kind, buf |-> <<>>, up |-> ups, fn |-> fn, ex |-> "",
   key |-> Undef, idx |-> 0, cur |-> 0, st |-> "start"]

Heap == [its |-> its, log |-> log]

NoValue(h, c) == [ok |-> FALSE, val |-> Undef, h |-> h, cur |-> c]

(***************************************************************************)
(* Caller-supplied functions, by name.                                     *)
(***************************************************************************)
Mappers == {"inc", "dbl"}
Predicates == {"gt1", "odd"}

\* "g.f" is the function x => g(f(x)) a caller writes out of two mappers
Apply(fn, v, idx) ==
  CASE fn = "inc" -> N(v.e[1] + 1)
    [] fn = "dbl" -> N(2 * v.e[1])
    [] fn = "inc.inc" -> N((v.e[1] + 1) + 1)
    [] fn = "dbl.inc" -> N(2 * (v.e[1] + 1))
    [] fn = "inc.dbl" -> N((2 * v.e[1]) + 1)
    [] fn = "dbl.dbl" -> N(2 * (2 * v.e[1]))
    [] OTHER -> v

Test(fn, v, idx) ==
  CASE fn = "gt1" -> v.e[1] > 1
    [] fn = "odd" -> v.e[1] % 2 = 1
    [] OTHER -> TRUE

\* a call fn(v, ...) made by generator who (0: by the terminal operation itself)
Call(h, who, fn, v) == [h EXCEPT !.log = Append(@, <<who, fn, v>>)]

(***************************************************************************)
(* Pulling one element.  Pull is next() on a heap iterator; PullConcat is  *)
(* next() on the generator of [Symbol.iterator], which delegates to the    *)
(* sources in list order starting from the source it is suspended in.      *)
(***************************************************************************)
RECURSIVE Pull(_, _), PullConcat(_, _, _), FilterNext(_, _)
RECURSIVE CollapseNext(_, _), GroupingCollect(_, _)
RECURSIVE EntryFilterNext(_, _)

PullConcat(ups, i, h) ==
  IF i > Len(ups) THEN NoValue(h, i)
  ELSE LET r == Pull(ups[i], h) IN
       IF r.ok THEN [r EXCEPT !.cur = i]
       ELSE PullConcat(ups, i + 1, r.h)

\* the loop of a filter generator: pull until the predicate accepts
FilterNext(id, h) ==
  LET g == h.its[id]
      r == PullConcat(g.up, IF g.cur = 0 THEN 1 ELSE g.cur, h)
  IN IF ~r.ok
     THEN NoValue([r.h EXCEPT !.its[id].st = "done", !.its[id].cur = r.cur], 0)
     ELSE LET h1 == Call(r.h, id, g.fn, r.val)
              h2 == [h1 EXCEPT !.its[id].st = "run", !.its[id].cur = r.cur,
                               !.its[id].idx = g.idx + 1]
          IN IF Test(g.fn, r.val, g.idx)
             THEN [ok |-> TRUE, val |-> r.val, h |-> h2, cur |-> 0]
             ELSE FilterNext(id, h2)

\* a map generator that runs its mapper on the mapped value once more
StageNextTwice(id, h) ==
  LET g == h.its[id]
      r == PullConcat(g.up, IF g.cur = 0 THEN 1 ELSE g.cur, h)
  IN IF ~r.ok
     THEN NoValue([r.h EXCEPT !.its[id].st = "done", !.its[id].cur = r.cur], 0)
     ELSE LET h1 == Call(Call(r.h, id, g.fn, r.val), id, g.fn, Apply(g.fn, r.val, g.idx))
              h2 == [h1 EXCEPT !.its[id].st = "run", !.its[id].cur = r.cur,
                               !.its[id].idx = g.idx + 1]
          IN [ok |-> TRUE,
              val |-> IF g.kind = "map"
                      THEN Apply(g.fn, Apply(g.fn, r.val, g.idx), g.idx) ELSE r.val,
              h |-> h2, cur |-> 0]

\* the loop body of a map / peek generator
StageNext(id, h) ==
  LET g == h.its[id]
      r == PullConcat(g.up, IF g.cur = 0 THEN 1 ELSE g.cur, h)
  IN IF ~r.ok
     THEN NoValue([r.h EXCEPT !.its[id].st = "done", !.its[id].cur = r.cur], 0)
     ELSE LET h1 == Call(r.h, id, g.fn, r.val)
              h2 == [h1 EXCEPT !.its[id].st = "run", !.its[id].cur = r.cur,
                               !.its[id].idx = g.idx + 1]
          IN [ok |-> TRUE,
              val |-> IF g.kind = "map" THEN Apply(g.fn, r.val, g.idx) ELSE r.val,
              h |-> h2, cur |-> 0]

\* the loop of the collapseKeys generator, up to its next yield.  The
\* statements that follow the yield inside the loop (collapseValues = [],
\* collapseKey = key, push) touch the generator's locals only and are done here.
CollapseNext(id, h) ==
  LET g == h.its[id]
      r == PullConcat(g.up, IF g.cur = 0 THEN 1 ELSE g.cur, h)
  IN IF ~r.ok
     THEN LET h1 == [r.h EXCEPT !.its[id].st = "done", !.its[id].cur = r.cur] IN
          IF Truthy(g.key)
          THEN [ok |-> TRUE, val |-> <<g.key, g.buf>>, h |-> h1, cur |-> 0]
          ELSE NoValue(h1, 0)
     ELSE LET key == r.val[1]
              value == r.val[2]
          IN IF Truthy(g.key) /\ g.key # key
             THEN [ok |-> TRUE, val |-> <<g.key, g.buf>>,
                   h |-> [r.h EXCEPT !.its[id].st = "run", !.its[id].cur = r.cur,
                                     !.its[id].key = key, !.its[id].buf = <<value>>],
                   cur |-> 0]
             ELSE CollapseNext(id,
                    [r.h EXCEPT !.its[id].st = "run", !.its[id].cur = r.cur,
                                !.its[id].key = key,
                                !.its[id].buf = Append(@, value)])

\* map.has(key) / map.set(key, []) / map.get(key).push(value) on a Map kept as
\* its entries in insertion order
MapPush(entries, key, value) ==
  IF \E i \in 1..Len(entries) : entries[i][1] = key
  THEN [i \in 1..Len(entries) |->
          IF entries[i][1] = key THEN <<key, Append(entries[i][2], value)>>
          ELSE entries[i]]
  ELSE Append(entries, <<key, <<value>>>>)

\* the loop of the grouping generator: the whole upstream goes into the Map
GroupingCollect(id, h) ==
  LET g == h.its[id]
      r == PullConcat(g.up, IF g.cur = 0 THEN 1 ELSE g.cur, h)
  IN IF ~r.ok THEN [r.h EXCEPT !.its[id].st = "emit", !.its[id].cur = r.cur]
     ELSE GroupingCollect(id,
            [r.h EXCEPT !.its[id].st = "run", !.its[id].cur = r.cur,
                        !.its[id].buf = MapPush(@, r.val[1], r.val[2])])

\* grouping that closes a group when the key changes
GroupingByRuns(id, h) == CollapseNext(id, h)

\* yield* map.entries()
GroupingNext(id, h) ==
  LET h1 == IF h.its[id].st = "emit" THEN h ELSE GroupingCollect(id, h)
      g == h1.its[id]
  IN IF g.buf = <<>> THEN NoValue([h1 EXCEPT !.its[id].st = "done"], 0)
     ELSE [ok |-> TRUE, val |-> Head(g.buf),
           h |-> [h1 EXCEPT !.its[id].buf = Tail(@)], cur |-> 0]

\* the predicates over the index handed to the filters of EntryFlow:
\*   "evenIdx" is (..., i) => i % 2 === 0, "oddIdx" is (..., i) => i % 2 === 1
EntryPredicates == {"evenIdx", "oddIdx"}

EntryTest(fn, entry, idx) == idx % 2 = (IF fn = "evenIdx" THEN 0 ELSE 1)

EntryFilters == {"EntryFlow.filter", "filterKeys", "filterValues"}

\* the loop of the generators of EntryFlow.filter, filterKeys and
\* filterValues: filterValues has index++ inside the if, the two others
\* after it
EntryFilterNext(id, h) ==
  LET g == h.its[id]
      r == PullConcat(g.up, IF g.cur = 0 THEN 1 ELSE g.cur, h)
  IN IF ~r.ok
     THEN NoValue([r.h EXCEPT !.its[id].st = "done", !.its[id].cur = r.cur], 0)
     ELSE LET h1 == Call(r.h, id, g.fn, r.val)
              h2 == [h1 EXCEPT !.its[id].st = "run", !.its[id].cur = r.cur]
              accepted == EntryTest(g.fn, r.val, g.idx)
              h3 == IF accepted \/ g.kind # "filterValues"
                    THEN [h2 EXCEPT !.its[id].idx = g.idx + 1]
                    ELSE h2
          IN IF accepted
             THEN [ok |-> TRUE, val |-> r.val, h |-> h3, cur |-> 0]
             ELSE EntryFilterNext(id, h3)

Pull(id, h) ==
  LET it == h.its[id] IN
  IF it.kind = "array"
  THEN IF it.buf = <<>> THEN NoValue(h, 0)
       ELSE [ok |-> TRUE, val |-> Head(it.buf),
             h |-> [h EXCEPT !.its[id].buf = Tail(@)], cur |-> 0]
  ELSE IF it.st = "done" THEN NoValue(h, 0)
  ELSE IF it.kind = "filter" THEN FilterNext(id, h)
  ELSE IF it.kind \in EntryFilters THEN EntryFilterNext(id, h)
  ELSE IF it.kind = "collapseKeys" THEN CollapseNext(id, h)
  ELSE IF it.kind = "grouping" THEN GroupingNext(id, h)
  ELSE StageNext(id, h)

(***************************************************************************)
(* return() on the generator of [Symbol.iterator] suspended in source i:   *)
(* a generator source is closed, and closes the source it is suspended in; *)
(* array and Set iterators have no return method and keep their position.  *)
(***************************************************************************)
RECURSIVE Close(_, _, _)
Close(ups, i, h) ==
  IF i < 1 \/ i > Len(ups) THEN h
  ELSE LET id == ups[i]
           it == h.its[id]
       IN IF it.kind = "array" \/ it.st = "done" THEN h
          ELSE Close(it.up, it.cur, [h EXCEPT !.its[id].st = "done"])

(***************************************************************************)
(* for (const value of this): the loops of the terminal operations.        *)
(***************************************************************************)
RECURSIVE DrainFrom(_, _, _, _)
DrainFrom(ups, i, h, out) ==
  LET r == PullConcat(ups, i, h) IN
  IF r.ok THEN DrainFrom(ups, r.cur, r.h, Append(out, r.val))
  ELSE [out |-> out, h |-> r.h]

\* Array.from(this)
Drain(ups, h) == DrainFrom(ups, 1, h, <<>>)

(***************************************************************************)
(* Flow: construction and composition.                                     *)
(***************************************************************************)
\* the iterator Flow.of / append / prepend make of their arguments
SourceOf(args) ==
  IF Len(args) = 1 /\ HasIterator(args[1])
  THEN ArrayIterator(Iterate(args[1]))
  ELSE ArrayIterator(args)

NewFlow(cls, ids) == [cls |-> cls, iterators |-> ids]

\* pre is the heap the operation started from
Op(op, recv, res, args, ret) ==
  [op |-> op, recv |-> recv, res |-> res, args |-> args, ret |-> ret,
   pre |-> its]

\* the argument lists a caller passes, over the next unused element values
Nums(k) == [i \in 1..k |-> fresh + i]
Values(k) == [i \in 1..k |-> N(fresh + i)]
ArgLists ==
  {Values(k) : k \in 1..MaxLen}
    \cup {<<Arr(Nums(k))>> : k \in 0..MaxLen}
    \cup {<<SetOf(Nums(k))>> : k \in 1..MaxLen}
    \cup {<<Iter(Nums(k))>> : k \in 1..MaxLen}

Used(args) == IF HasIterator(args[1]) THEN Len(args[1].e) ELSE Len(args)

FlowIds == {f \in 1..Len(flows) : flows[f].cls = "Flow"}

\* A run builds its pipelines from one root: pipelines built from separate
\* roots share no iterator and cannot be combined.
FlowOf(args) ==
  /\ flows = <<>>
  /\ its' = Append(its, SourceOf(args))
  /\ flows' = Append(flows, NewFlow("Flow", <<Len(its) + 1>>))
  /\ fresh' = fresh + Used(args)
  /\ log' = <<>>
  /\ last' = Op("of", 0, Len(flows) + 1, args, <<>>)
  /\ UNCHANGED <<asyncVars, items>>

\* the splice of append done at the wrong end
AppendSourcesAtFront(ids, id) == <<id>> \o ids

AppendSources(ids, id) == ids \o <<id>>

PrependSources(ids, id) == <<id>> \o ids

FlowAppend(f, args) ==
  /\ Len(flows) < MaxFlows
  /\ its' = Append(its, SourceOf(args))
  /\ flows' = Append(flows,
                 NewFlow("Flow", AppendSources(flows[f].iterators, Len(its) + 1)))
  /\ fresh' = fresh + Used(args)
  /\ log' = <<>>
  /\ last' = Op("append", f, Len(flows) + 1, args, <<>>)
  /\ UNCHANGED <<asyncVars, items>>

FlowPrepend(f, args) ==
  /\ Len(flows) < MaxFlows
  /\ its' = Append(its, SourceOf(args))
  /\ flows' = Append(flows,
                 NewFlow("Flow", PrependSources(flows[f].iterators, Len(its) + 1)))
  /\ fresh' = fresh + Used(args)
  /\ log' = <<>>
  /\ last' = Op("prepend", f, Len(flows) + 1, args, <<>>)
  /\ UNCHANGED <<asyncVars, items>>

FlowToArray(f) ==
  LET d == Drain(flows[f].iterators, [its |-> its, log |-> <<>>]) IN
  /\ its' = d.h.its
  /\ log' = d.h.log
  /\ last' = Op("toArray", f, 0, <<>>, d.out)
  /\ UNCHANGED <<flows, fresh, asyncVars, items>>

(***************************************************************************)
(* Flow: the lazy combinators.  Each hands Flow.of a generator closing     *)
(* over the receiver; nothing runs until the generator is pulled.          *)
(***************************************************************************)
Stage(f, kind, fn) ==
  /\ Len(flows) < MaxFlows
  /\ its' = Append(its, Generator(kind, flows[f].iterators, fn))
  /\ flows' = Append(flows, NewFlow("Flow", <<Len(its) + 1>>))
  /\ log' = <<>>
  /\ last' = Op(kind, f, Len(flows) + 1, <<fn>>, <<>>)
  /\ UNCHANGED <<fresh, asyncVars, items>>

FlowMap(f, mapper) == Stage(f, "map", mapper)

FlowFilter(f, predicate) == Stage(f, "filter", predicate)

FlowPeek(f) == Stage(f, "peek", "consumer")

(***************************************************************************)
(* Flow: the materializing combinators.  Array.from(this) and              *)
(* new Set(this) run when the combinator is called.                        *)
(***************************************************************************)
RECURSIVE Digits(_)
Digits(n) == IF n < 10 THEN <<48 + n>> ELSE Append(Digits(n \div 10), 48 + (n % 10))

\* ToString of a value, as character codes
ToStr(v) == IF v.t = "num" THEN Digits(v.e[1]) ELSE v.e

RECURSIVE LexLess(_, _)
LexLess(a, b) ==
  IF b = <<>> THEN FALSE
  ELSE IF a = <<>> THEN TRUE
  ELSE IF Head(a) # Head(b) THEN Head(a) < Head(b)
  ELSE LexLess(Tail(a), Tail(b))

Comparators == {"default", "asc", "desc"}

\* comparator(x, y); "default" is Array.prototype.sort without a comparator,
\* which compares the operands' strings
Compare(cmp, x, y) ==
  CASE cmp = "asc" -> x.e[1] - y.e[1]
    [] cmp = "desc" -> y.e[1] - x.e[1]
    [] OTHER -> IF LexLess(ToStr(x), ToStr(y)) THEN -1
                ELSE IF LexLess(ToStr(y), ToStr(x)) THEN 1 ELSE 0

Extractors == {"parity"}

\* extractor(x); "id" stands for sort, which compares the elements themselves
Extract(ex, v) == IF ex = "parity" THEN N(v.e[1] % 2) ELSE v

RECURSIVE InsertSorted(_, _, _, _)
InsertSorted(sorted, x, ex, cmp) ==
  IF sorted = <<>> THEN <<x>>
  ELSE IF Compare(cmp, Extract(ex, Head(sorted)), Extract(ex, x)) > 0
       THEN <<x>> \o sorted
       ELSE <<Head(sorted)>> \o InsertSorted(Tail(sorted), x, ex, cmp)

\* Array.prototype.sort: stable
RECURSIVE SortFrom(_, _, _, _)
SortFrom(a, sorted, ex, cmp) ==
  IF a = <<>> THEN sorted
  ELSE SortFrom(Tail(a), InsertSorted(sorted, Head(a), ex, cmp), ex, cmp)

ArraySort(a, ex, cmp) == SortFrom(a, <<>>, ex, cmp)

ArrayReverse(a) == [i \in 1..Len(a) |-> a[Len(a) + 1 - i]]

\* new Set(a), in insertion order
RECURSIVE SetFrom(_, _)
SetFrom(a, seen) ==
  IF a = <<>> THEN seen
  ELSE SetFrom(Tail(a),
               IF \E i \in 1..Len(seen) : seen[i] = Head(a) THEN seen
               ELSE Append(seen, Head(a)))

\* a Set that moves a value to the end when it is added again
SetKeepingLast(a) ==
  LET lasts == {i \in 1..Len(a) : \A j \in (i + 1)..Len(a) : a[j] # a[i]}
      nth[n \in 1..Cardinality(lasts)] ==
        CHOOSE i \in lasts : Cardinality({j \in lasts : j < i}) = n - 1
  IN [n \in 1..Cardinality(lasts) |-> a[nth[n]]]

NewSet(a) == SetFrom(a, <<>>)

Materialized(kind, a, ex, cmp) ==
  CASE kind \in {"sort", "sortBy"} -> ArraySort(a, ex, cmp)
    [] kind = "reverse" -> ArrayReverse(a)
    [] OTHER -> NewSet(a)

\* what the receiver's sources hold when sort / reverse / distinct returns
Materialize(f, h) == Drain(flows[f].iterators, h)

FlowMaterialize(f, kind, ex, cmp) ==
  LET d == Materialize(f, [its |-> its, log |-> <<>>]) IN
  /\ Len(flows) < MaxFlows
  /\ its' = Append(d.h.its, ArrayIterator(Materialized(kind, d.out, ex, cmp)))
  /\ flows' = Append(flows, NewFlow("Flow", <<Len(its) + 1>>))
  /\ log' = d.h.log
  /\ last' = Op(kind, f, Len(flows) + 1, <<ex, cmp>>, <<>>)
  /\ UNCHANGED <<fresh, asyncVars, items>>

FlowSort(f, comparator) == FlowMaterialize(f, "sort", "id", comparator)

FlowSortBy(f, extractor, comparator) ==
  FlowMaterialize(f, "sortBy", extractor, comparator)

FlowReverse(f) == FlowMaterialize(f, "reverse", "", "")

FlowDistinct(f) == FlowMaterialize(f, "distinct", "", "")

(***************************************************************************)
(* EntryFlow: construction, composition, collapseKeys and grouping.        *)
(***************************************************************************)
\* the iterator EntryFlow.of / append / prepend make of their argument
EntrySourceOf(arg) ==
  IF HasIterator(arg) THEN ArrayIterator(Iterate(arg))
  ELSE ArrayIterator(ObjectEntries(arg))

EntryAppendSources(ids, id, arg) ==
  IF HasIterator(arg) THEN <<id>> \o ids ELSE <<id>> \o ids

EntryPrependSources(ids, id, arg) ==
  IF HasIterator(arg) THEN <<id>> \o ids ELSE ids \o <<id>>

EntryFlowIds == {f \in 1..Len(flows) : flows[f].cls = "EntryFlow"}

\* k pairs over the next unused values, under the keys "a", "b", ...
Pairs(k) == [i \in 1..k |-> <<Str(<<96 + i>>), N(fresh + i)>>]

EntryArgs ==
  UNION {{Entries(Pairs(k)), MapOf(Pairs(k)), Record(Pairs(k))} : k \in 0..MaxLen}

EntryFlowOf(arg) ==
  /\ flows = <<>>
  /\ its' = Append(its, EntrySourceOf(arg))
  /\ flows' = Append(flows, NewFlow("EntryFlow", <<Len(its) + 1>>))
  /\ fresh' = fresh + Len(arg.e)
  /\ log' = <<>>
  /\ last' = Op("of", 0, Len(flows) + 1, <<arg>>, <<>>)
  /\ UNCHANGED <<asyncVars, items>>

EntryFlowAppend(f, arg) ==
  /\ Len(flows) < MaxFlows
  /\ its' = Append(its, EntrySourceOf(arg))
  /\ flows' = Append(flows,
       NewFlow("EntryFlow", EntryAppendSources(flows[f].iterators, Len(its) + 1, arg)))
  /\ fresh' = fresh + Len(arg.e)
  /\ log' = <<>>
  /\ last' = Op("append", f, Len(flows) + 1, <<arg>>, <<>>)
  /\ UNCHANGED <<asyncVars, items>>

EntryFlowPrepend(f, arg) ==
  /\ Len(flows) < MaxFlows
  /\ its' = Append(its, EntrySourceOf(arg))
  /\ flows' = Append(flows,
       NewFlow("EntryFlow", EntryPrependSources(flows[f].iterators, Len(its) + 1, arg)))
  /\ fresh' = fresh + Len(arg.e)
  /\ log' = <<>>
  /\ last' = Op("prepend", f, Len(flows) + 1, <<arg>>, <<>>)
  /\ UNCHANGED <<asyncVars, items>>

EntryStage(f, kind) ==
  /\ Len(flows) < MaxFlows
  /\ its' = Append(its, Generator(kind, flows[f].iterators, ""))
  /\ flows' = Append(flows, NewFlow("EntryFlow", <<Len(its) + 1>>))
  /\ log' = <<>>
  /\ last' = Op(kind, f, Len(flows) + 1, <<>>, <<>>)
  /\ UNCHANGED <<fresh, asyncVars, items>>

EntryFilterStage(f, kind, predicate) ==
  /\ Len(flows) < MaxFlows
  /\ its' = Append(its, Generator(kind, flows[f].iterators, predicate))
  /\ flows' = Append(flows, NewFlow("EntryFlow", <<Len(its) + 1>>))
  /\ log' = <<>>
  /\ last' = Op(kind, f, Len(flows) + 1, <<predicate>>, <<>>)
  /\ UNCHANGED <<fresh, asyncVars, items>>

EntryFlowFilter(f, predicate) == EntryFilterStage(f, "EntryFlow.filter", predicate)

EntryFlowFilterKeys(f, predicate) == EntryFilterStage(f, "filterKeys", predicate)

EntryFlowFilterValues(f, predicate) == EntryFilterStage(f, "filterValues", predicate)

EntryFlowCollapseKeys(f) == EntryStage(f, "collapseKeys")

EntryFlowGrouping(f) == EntryStage(f, "grouping")

EntryFlowToArray(f) ==
  LET d == Drain(flows[f].iterators, [its |-> its, log |-> <<>>]) IN
  /\ its' = d.h.its
  /\ log' = d.h.log
  /\ last' = Op("toArray", f, 0, <<>>, d.out)
  /\ UNCHANGED <<flows, fresh, asyncVars, items>>

(***************************************************************************)
(* Item and the short-circuiting terminal operations of Flow.              *)
(***************************************************************************)
ItemOf(value) == [value |-> value]

ItemEmpty == [value |-> Undef]

\* some written over the drained array: this.toArray().some(predicate)
RECURSIVE SomeOfArray(_, _, _, _)
SomeOfArray(a, h, predicate, index) ==
  IF a = <<>> THEN [ret |-> FALSE, h |-> h]
  ELSE IF Test(predicate, Head(a), index)
       THEN [ret |-> TRUE, h |-> Call(h, 0, predicate, Head(a))]
       ELSE SomeOfArray(Tail(a), Call(h, 0, predicate, Head(a)), predicate, index + 1)

SomeEager(ups, i, h, predicate, index) ==
  LET d == Drain(ups, h) IN SomeOfArray(d.out, d.h, predicate, index)

RECURSIVE SomeFrom(_, _, _, _, _)
SomeFrom(ups, i, h, predicate, index) ==
  LET r == PullConcat(ups, i, h) IN
  IF ~r.ok THEN [ret |-> FALSE, h |-> r.h]
  ELSE LET h1 == Call(r.h, 0, predicate, r.val) IN
       IF Test(predicate, r.val, index)
       THEN [ret |-> TRUE, h |-> Close(ups, r.cur, h1)]
       ELSE SomeFrom(ups, r.cur, h1, predicate, index + 1)

RECURSIVE EveryFrom(_, _, _, _, _)
EveryFrom(ups, i, h, predicate, index) ==
  LET r == PullConcat(ups, i, h) IN
  IF ~r.ok THEN [ret |-> TRUE, h |-> r.h]
  ELSE LET h1 == Call(r.h, 0, predicate, r.val) IN
       IF ~Test(predicate, r.val, index)
       THEN [ret |-> FALSE, h |-> Close(ups, r.cur, h1)]
       ELSE EveryFrom(ups, r.cur, h1, predicate, index + 1)

FindFirstFrom(ups, h) ==
  LET r == PullConcat(ups, 1, h) IN
  IF r.ok THEN [ret |-> ItemOf(r.val), h |-> Close(ups, r.cur, r.h)]
  ELSE [ret |-> ItemEmpty, h |-> r.h]

Terminal(op, f, fn, r) ==
  /\ its' = r.h.its
  /\ log' = r.h.log
  /\ last' = Op(op, f, 0, <<fn>>, r.ret)
  /\ UNCHANGED <<flows, fresh, asyncVars, items>>

FlowSome(f, predicate) ==
  Terminal("some", f, predicate,
           SomeFrom(flows[f].iterators, 1, [its |-> its, log |-> <<>>], predicate, 0))

FlowEvery(f, predicate) ==
  Terminal("every", f, predicate,
           EveryFrom(flows[f].iterators, 1, [its |-> its, log |-> <<>>], predicate, 0))

FlowFindFirst(f) ==
  Terminal("findFirst", f, "",
           FindFirstFrom(flows[f].iterators, [its |-> its, log |-> <<>>]))

CountFrom(ups, h) ==
  LET d == Drain(ups, h) IN [ret |-> Len(d.out), h |-> d.h]

FlowCount(f) ==
  Terminal("count", f, "", CountFrom(flows[f].iterators, [its |-> its, log |-> <<>>]))

(***************************************************************************)
(* Item.                                                                   *)
(***************************************************************************)
IsEmpty(item) == IsNullish(item.value)

\* how a call ended: it returned value, or it threw value
Return(value) == [how |-> "return", value |-> value]

Get(item) == Return(item.value)

\* the functions a caller hands to map / filter / filterBy:
\*   "null" is v => null, "self" is v => v; "never" is () => false,
\*   "always" is () => true
ItemMappers == {"null", "self"}
ItemPredicates == {"never", "always"}
ItemApply(fn, v) == IF fn = "null" THEN Null ELSE v
ItemTest(fn, v) == fn = "always"

Map(item, mapper) ==
  IF IsEmpty(item) THEN ItemEmpty ELSE ItemOf(ItemApply(mapper, item.value))

Filter(item, predicate) ==
  IF IsEmpty(item) THEN item
  ELSE IF ItemTest(predicate, item.value) THEN item ELSE ItemEmpty

FilterBy(item, extractor, predicate) ==
  IF IsEmpty(item) THEN item
  ELSE LET mapped == ItemApply(extractor, item.value) IN
       IF IsNullish(mapped) THEN ItemEmpty
       ELSE IF ItemTest(predicate, mapped) THEN item ELSE ItemEmpty

\* the values a caller wraps: undefined, null, 1, "ab", [1,2], Set{1}, {}
ItemValues ==
  {Undef, Null, N(1), Str(<<97, 98>>), Arr(<<1, 2>>), SetOf(<<1>>), Obj(1)}

ItemIds == 1..Len(items)

NewItem(op, recv, args, item) ==
  /\ Len(items) < MaxItems
  /\ flows = <<>>
  /\ items' = Append(items, item)
  /\ last' = Op(op, recv, Len(items) + 1, args, <<>>)
  /\ UNCHANGED <<its, flows, log, fresh, asyncVars>>

CallItemOf(value) == NewItem("Item.of", 0, <<value>>, ItemOf(value))

CallItemEmpty == NewItem("Item.empty", 0, <<>>, ItemEmpty)

ItemMap(i, mapper) == NewItem("Item.map", i, <<mapper>>, Map(items[i], mapper))

ItemFilter(i, predicate) ==
  NewItem("Item.filter", i, <<predicate>>, Filter(items[i], predicate))

ItemFilterBy(i, extractor, predicate) ==
  NewItem("Item.filterBy", i, <<extractor, predicate>>,
          FilterBy(items[i], extractor, predicate))

ItemGet(i) ==
  /\ last' = Op("Item.get", i, 0, <<>>, Get(items[i]))
  /\ UNCHANGED <<its, flows, log, fresh, asyncVars, items>>

ItemFlow(i) ==
  /\ flows = <<>>
  /\ IF IsEmpty(items[i])
     THEN /\ flows' = Append(flows, NewFlow("Flow", <<>>))
          /\ its' = its
     ELSE /\ its' = Append(its, SourceOf(<<items[i].value>>))
          /\ flows' = Append(flows, NewFlow("Flow", <<Len(its) + 1>>))
  /\ log' = <<>>
  /\ last' = Op("Item.flow", i, Len(flows) + 1, <<>>, <<>>)
  /\ UNCHANGED <<fresh, asyncVars, items>>

(***************************************************************************)
(* Errors, functions handed to Item and PromiseItem, and Item.orElseThrow. *)
(***************************************************************************)
\* an instance of Error, carrying k
Err(k) == [t |-> "error", e |-> <<k>>]

\* the TypeError the engine throws (call of a non-function, property of null)
TypeError == [t |-> "TypeError", e |-> <<>>]

\* v instanceof Error; Obj(k) stands for an object that has the members of
\* Error (name, message) without Error.prototype in its chain
InstanceOfError(v) == v.t \in {"error", "TypeError"}

\* typeof v === 'function'
IsFunction(v) == v.t = "fn"

Throw(value) == [how |-> "throw", value |-> value]

\* a function, by what a call of it does:
\*   "num"   returns k                "null"  returns null
\*   "void"  returns undefined        "true" / "false"  return that
\*   "err"   returns Err(k)           "throw" throws Err(k)
\*   "prop"  is x => x.k: returns k, throws a TypeError on null / undefined
\*   "item"  returns a PromiseItem already fulfilled with k
Fn(does, k) == [t |-> "fn", e |-> <<k>>, does |-> does]

CallFn(f, x) ==
  CASE f.does = "num" -> Return(N(f.e[1]))
    [] f.does = "null" -> Return(Null)
    [] f.does = "void" -> Return(Undef)
    [] f.does = "true" -> Return(Bool(TRUE))
    [] f.does = "false" -> Return(Bool(FALSE))
    [] f.does = "err" -> Return(Err(f.e[1]))
    [] f.does = "throw" -> Throw(Err(f.e[1]))
    [] f.does = "prop" -> IF IsNullish(x) THEN Throw(TypeError) ELSE Return(N(f.e[1]))
    [] f.does = "item" -> Return([t |-> "PromiseItem", e |-> <<f.e[1]>>])

\* Item.orElseThrow: how the call ends and the functions it called
OrElseThrow(item, supplierOrError) ==
  IF IsEmpty(item)
  THEN IF InstanceOfError(supplierOrError)
       THEN [end |-> Throw(supplierOrError), calls |-> <<>>]
       ELSE IF IsFunction(supplierOrError)
            THEN LET c == CallFn(supplierOrError, Undef) IN
                 [end |-> Throw(c.value), calls |-> <<supplierOrError>>]
            ELSE [end |-> Throw(TypeError), calls |-> <<>>]
  ELSE [end |-> Return(item.value), calls |-> <<>>]

\* what a caller passes to orElseThrow: an Error, an object with the members
\* of Error, a supplier of an Error, a supplier that throws
OrElseThrowArgs == {Err(1), Obj(1), Fn("err", 2), Fn("throw", 3)}

ItemOrElseThrow(i, supplierOrError) ==
  /\ last' = Op("Item.orElseThrow", i, 0, <<supplierOrError>>,
                OrElseThrow(items[i], supplierOrError))
  /\ UNCHANGED <<its, flows, log, fresh, asyncVars, items>>

\* no asynchronous terminal operation has been called
Idle == [st |-> "idle", f |-> 0, cur |-> 0, out |-> <<>>]

(***************************************************************************)
(* PromiseFlow.  An element n of a source stands for the pending value     *)
(* that fulfils with n; it can be delivered once n has settled.            *)
(***************************************************************************)
AIter(ns) == [t |-> "aiter", e |-> ns]

\* typeof v?.[Symbol.asyncIterator] === 'function'
HasAsyncIterator(v) == v.t = "aiter"

\* an asynchronous source: each next() awaits the element it delivers
AsyncSource(elems) ==
  [kind |-> "promises", buf |-> elems, up |-> <<>>, fn |-> "", ex |-> "",
   key |-> Undef, idx |-> 0, cur |-> 0, st |-> "run"]

\* an async generator of sort / sortBy / reverse / distinct; not started
AsyncGenerator(kind, ups, ex, cmp) ==
  [kind |-> kind, buf |-> <<>>, up |-> ups, fn |-> cmp, ex |-> ex,
   key |-> Undef, idx |-> 0, cur |-> 0, st |-> "start"]

PromiseSourceOf(args) ==
  IF HasAsyncIterator(args[1]) THEN AsyncSource(Iterate(args[1]))
  ELSE IF Len(args) = 1 /\ HasIterator(args[1])
       THEN AsyncSource(Iterate(args[1]))
       ELSE AsyncSource(args)

PromiseAppendSources(ids, id) == <<id>> \o ids

PromisePrependSources(ids, id) == ids \o <<id>>

PromiseArgLists ==
  {a \in ArgLists \cup {<<AIter(Nums(k))>> : k \in 1..MaxLen} :
     fresh + Used(a) <= MaxPending}

\* how many pending values a call may still pass
PendingLens == {k \in 1..MaxLen : fresh + k <= MaxPending}

PromiseFlowIds == {f \in 1..Len(flows) : flows[f].cls = "PromiseFlow"}

\* the end of a call chain of(..).append(..).prepend(..): the instance the
\* next call of the chain is made on
ChainEnd == {f \in PromiseFlowIds : f = Len(flows)}

PromiseFlowOf(args) ==
  /\ flows = <<>>
  /\ its' = Append(its, PromiseSourceOf(args))
  /\ flows' = Append(flows, NewFlow("PromiseFlow", <<Len(its) + 1>>))
  /\ sync' = Append(sync, <<Len(its) + 1>>)
  /\ fresh' = fresh + Used(args)
  /\ last' = Op("of", 0, Len(flows) + 1, args, <<>>)
  /\ UNCHANGED <<log, settled, task, items, proms>>

PromiseFlowAppend(f, args) ==
  /\ task.st = "idle"
  /\ Len(flows) < MaxFlows
  /\ its' = Append(its, PromiseSourceOf(args))
  /\ flows' = Append(flows,
       NewFlow("PromiseFlow", PromiseAppendSources(flows[f].iterators, Len(its) + 1)))
  /\ sync' = Append(sync, AppendSources(sync[f], Len(its) + 1))
  /\ fresh' = fresh + Used(args)
  /\ last' = Op("append", f, Len(flows) + 1, args, <<>>)
  /\ UNCHANGED <<log, settled, task, items, proms>>

PromiseFlowPrepend(f, args) ==
  /\ task.st = "idle"
  /\ Len(flows) < MaxFlows
  /\ its' = Append(its, PromiseSourceOf(args))
  /\ flows' = Append(flows,
       NewFlow("PromiseFlow", PromisePrependSources(flows[f].iterators, Len(its) + 1)))
  /\ sync' = Append(sync, PrependSources(sync[f], Len(its) + 1))
  /\ fresh' = fresh + Used(args)
  /\ last' = Op("prepend", f, Len(flows) + 1, args, <<>>)
  /\ UNCHANGED <<log, settled, task, items, proms>>

PromiseFlowMaterialize(f, kind, ex, cmp) ==
  /\ task.st = "idle"
  /\ Len(flows) < MaxFlows
  /\ its' = Append(its, AsyncGenerator(kind, flows[f].iterators, ex, cmp))
  /\ flows' = Append(flows, NewFlow("PromiseFlow", <<Len(its) + 1>>))
  /\ sync' = Append(sync, <<Len(its) + 1>>)
  /\ last' = Op(kind, f, Len(flows) + 1, <<ex, cmp>>, <<>>)
  /\ UNCHANGED <<log, fresh, settled, task, items, proms>>

PromiseFlowSort(f, comparator) == PromiseFlowMaterialize(f, "sort", "id", comparator)

PromiseFlowSortBy(f, extractor, comparator) ==
  PromiseFlowMaterialize(f, "sortBy", extractor, comparator)

PromiseFlowReverse(f) == PromiseFlowMaterialize(f, "reverse", "", "")

PromiseFlowDistinct(f) == PromiseFlowMaterialize(f, "distinct", "", "")

(***************************************************************************)
(* Pulling from an asynchronous pipeline: a value, the end, or a wait for  *)
(* a pending value that has not settled (the pull resumes from there).     *)
(***************************************************************************)
Waiting(h, c) == [res |-> "wait", val |-> Undef, h |-> h, cur |-> c]

Ended(h, c) == [res |-> "done", val |-> Undef, h |-> h, cur |-> c]

Yielded(v, h, c) == [res |-> "val", val |-> v, h |-> h, cur |-> c]

\* yield* of the finished array / Set of a sort / reverse / distinct generator
EmitNext(id, h) ==
  LET g == h.its[id] IN
  IF g.buf = <<>> THEN Ended([h EXCEPT !.its[id].st = "done"], 0)
  ELSE Yielded(Head(g.buf), [h EXCEPT !.its[id].buf = Tail(@)], 0)

RECURSIVE AsyncPull(_, _, _), AsyncPullConcat(_, _, _, _), Collect(_, _, _)

\* a generator that yields each value as it arrives instead of collecting
Streaming(id, h, S) ==
  LET g == h.its[id]
      r == AsyncPullConcat(g.up, IF g.cur = 0 THEN 1 ELSE g.cur, h, S)
  IN CASE r.res = "wait" ->
            Waiting([r.h EXCEPT !.its[id].st = "drain", !.its[id].cur = r.cur], 0)
       [] r.res = "val" ->
            Yielded(r.val, [r.h EXCEPT !.its[id].st = "drain", !.its[id].cur = r.cur], 0)
       [] OTHER ->
            Ended([r.h EXCEPT !.its[id].st = "done", !.its[id].cur = r.cur], 0)

AsyncPullConcat(ups, i, h, S) ==
  IF i > Len(ups) THEN Ended(h, i)
  ELSE LET r == AsyncPull(ups[i], h, S) IN
       IF r.res = "done" THEN AsyncPullConcat(ups, i + 1, r.h, S)
       ELSE [r EXCEPT !.cur = i]

\* for await (const value of iterable) values.push(value), then the yield*
Collect(id, h, S) ==
  LET g == h.its[id]
      r == AsyncPullConcat(g.up, IF g.cur = 0 THEN 1 ELSE g.cur, h, S)
  IN CASE r.res = "wait" ->
            Waiting([r.h EXCEPT !.its[id].st = "drain", !.its[id].cur = r.cur], 0)
       [] r.res = "val" ->
            Collect(id, [r.h EXCEPT !.its[id].st = "drain", !.its[id].cur = r.cur,
                                    !.its[id].buf = Append(@, r.val)], S)
       [] OTHER ->
            EmitNext(id, [r.h EXCEPT !.its[id].st = "emit", !.its[id].cur = r.cur,
                                     !.its[id].buf = Materialized(g.kind, @, g.ex, g.fn)])

\* a source that hands out whichever pending value has settled
AsyncPullSettled(id, h, S) ==
  LET it == h.its[id]
      ready == {i \in 1..Len(it.buf) : it.buf[i].e[1] \in S}
  IN IF it.kind = "promises"
     THEN IF it.buf = <<>> THEN Ended(h, 0)
          ELSE IF ready = {} THEN Waiting(h, 0)
          ELSE LET i == CHOOSE j \in ready : \A k \in ready : j <= k IN
               Yielded(it.buf[i],
                       [h EXCEPT !.its[id].buf =
                          [j \in 1..(Len(it.buf) - 1) |->
                             IF j < i THEN it.buf[j] ELSE it.buf[j + 1]]], 0)
     ELSE IF it.st = "done" THEN Ended(h, 0)
     ELSE IF it.st = "emit" THEN EmitNext(id, h)
     ELSE Collect(id, h, S)

AsyncPull(id, h, S) ==
  LET it == h.its[id] IN
  IF it.kind = "promises"
  THEN IF it.buf = <<>> THEN Ended(h, 0)
       ELSE IF Head(it.buf).e[1] \in S
            THEN Yielded(Head(it.buf), [h EXCEPT !.its[id].buf = Tail(@)], 0)
            ELSE Waiting(h, 0)
  ELSE IF it.st = "done" THEN Ended(h, 0)
  ELSE IF it.st = "emit" THEN EmitNext(id, h)
  ELSE Collect(id, h, S)

\* the sources a pipeline reads, through its generators
RECURSIVE SourcesOf(_)
SourcesOf(ups) ==
  UNION {IF its[ups[i]].kind = "promises" THEN {ups[i]}
         ELSE SourcesOf(its[ups[i]].up) : i \in 1..Len(ups)}

\* the pending values toArray is still to be given
Pending ==
  UNION {{its[id].buf[i].e[1] : i \in 1..Len(its[id].buf)} :
           id \in SourcesOf(flows[task.f].iterators)}

\* a pending value settles while toArray runs
Settle(n) ==
  /\ task.st = "run"
  /\ n \in Pending \ settled
  /\ settled' = settled \cup {n}
  /\ UNCHANGED <<its, flows, log, last, fresh, task, sync, items, proms>>

\* the call of toArray: the loop starts at its first pull
PromiseFlowToArray(f) ==
  /\ task.st = "idle"
  /\ task' = [st |-> "run", f |-> f, cur |-> 1, out |-> <<>>]
  /\ last' = Op("toArray", f, 0, <<>>, <<>>)
  /\ UNCHANGED <<its, flows, log, fresh, settled, sync, items, proms>>

\* toArray runs until it has pushed one more element, has ended, or waits
ToArrayStep ==
  LET r == AsyncPullConcat(flows[task.f].iterators, task.cur, Heap, settled) IN
  /\ task.st = "run"
  /\ r.res = "wait" => r.h.its # its
  /\ its' = r.h.its
  /\ task' = CASE r.res = "val" -> [task EXCEPT !.out = Append(@, r.val), !.cur = r.cur]
               [] r.res = "done" -> [task EXCEPT !.st = "done", !.cur = r.cur]
               [] OTHER -> [task EXCEPT !.cur = r.cur]
  /\ UNCHANGED <<flows, log, last, fresh, settled, sync, items, proms>>

(***************************************************************************)
(* PromiseItem.  A PromiseItem made by a combinator is settled by the      *)
(* reaction its executor registered on the receiver with then / catch;     *)
(* the reaction runs as a job of its own once the receiver has settled.    *)
(* Adopting a PromiseItem that is already fulfilled takes further jobs and *)
(* ends in its value; those jobs are folded into the reaction.             *)
(***************************************************************************)
\* a PromiseLike handed to PromiseItem.of that settles later
Thenable == [t |-> "thenable", e |-> <<>>]

NewPromise(st, val, op, recv, args) ==
  [st |-> st, val |-> val, op |-> op, recv |-> recv, args |-> args,
   calls |-> <<>>, ran |-> FALSE]

Settled(p) == proms[p].st # "pending"

\* what a reaction does to the PromiseItem it belongs to
Fulfil(value, calls) == [how |-> "fulfilled", value |-> value, calls |-> calls]
Reject(error, calls) == [how |-> "rejected", value |-> error, calls |-> calls]
Never(calls) == [how |-> "pending", value |-> Undef, calls |-> calls]

\* resolve(x)
Resolve(x, calls) ==
  IF x.t = "PromiseItem" THEN Fulfil(N(x.e[1]), calls) ELSE Fulfil(x, calls)

\* the first argument of this.then(...) of each combinator, run on value
OnFulfilled(op, value, a, b) ==
  LET empty == IsNullish(value) IN
  CASE op = "map" ->
         IF empty THEN Fulfil(Undef, <<>>)
         ELSE LET c == CallFn(a, value) IN
              IF c.how = "throw" THEN Reject(c.value, <<a>>) ELSE Resolve(c.value, <<a>>)
    [] op = "mapError" -> Never(<<>>)
    [] op \in {"filter", "remove"} ->
         IF empty THEN Fulfil(Undef, <<>>)
         ELSE LET c == CallFn(a, value) IN
              IF c.how = "throw" THEN Reject(c.value, <<a>>)
              ELSE IF Truthy(c.value) = (op = "filter") THEN Fulfil(value, <<a>>)
              ELSE Fulfil(Undef, <<a>>)
    [] op \in {"filterBy", "removeBy"} ->
         LET m == CallFn(a, value)
             calls == IF m.how = "return" /\ ~IsNullish(m.value) THEN <<a, b>> ELSE <<a>>
         IN IF empty THEN Fulfil(Undef, calls)
            ELSE IF m.how = "throw" THEN Reject(m.value, calls)
            ELSE IF IsNullish(m.value) THEN Fulfil(Undef, calls)
            ELSE LET c == CallFn(b, m.value) IN
                 IF c.how = "throw" THEN Reject(c.value, calls)
                 ELSE IF Truthy(c.value) = (op = "filterBy") THEN Fulfil(value, calls)
                 ELSE Fulfil(Undef, calls)
    [] op = "ifPresent" ->
         IF empty THEN Fulfil(value, <<>>)
         ELSE IF CallFn(a, value).how = "throw"
              THEN Reject(CallFn(a, value).value, <<a>>)
              ELSE Fulfil(value, <<a>>)
    [] op = "ifEmpty" ->
         IF ~empty THEN Fulfil(value, <<>>)
         ELSE IF CallFn(a, Undef).how = "throw"
              THEN Reject(CallFn(a, Undef).value, <<a>>)
              ELSE Fulfil(value, <<a>>)
    [] op = "ifThrown" -> Fulfil(value, <<>>)
    [] op = "isPresent" -> Fulfil(Bool(~empty), <<>>)
    [] op = "isEmpty" -> Fulfil(Bool(empty), <<>>)
    [] op = "or" ->
         IF ~empty THEN Fulfil(value, <<>>)
         ELSE LET c == CallFn(a, Undef) IN
              IF c.how = "throw" THEN Never(<<a>>) ELSE Resolve(c.value, <<a>>)
    [] op = "orElse" ->
         IF ~empty THEN Fulfil(value, <<>>) ELSE Resolve(a, <<>>)
    [] op = "orElseGet" ->
         IF ~empty THEN Fulfil(value, <<>>)
         ELSE LET c == CallFn(a, Undef) IN
              IF c.how = "throw" THEN Reject(c.value, <<a>>) ELSE Resolve(c.value, <<a>>)
    [] op = "orElseThrow" ->
         IF ~empty THEN Fulfil(value, <<>>)
         ELSE IF IsFunction(a) THEN Reject(CallFn(a, Undef).value, <<a>>)
         ELSE Reject(a, <<>>)

\* the rejection handler of each combinator, run on error
OnRejected(op, error, a, b) ==
  CASE op = "mapError" ->
         LET c == CallFn(a, error) IN
         IF c.how = "throw" THEN Reject(c.value, <<a>>) ELSE Resolve(c.value, <<a>>)
    [] op = "ifThrown" ->
         Reject(error, IF IsNullish(error) THEN <<>> ELSE <<a>>)
    [] OTHER -> Reject(error, <<>>)

Reaction(q) ==
  LET p == proms[proms[q].recv]
      a == proms[q].args[1]
      b == proms[q].args[2]
  IN IF p.st = "fulfilled" THEN OnFulfilled(proms[q].op, p.val, a, b)
     ELSE OnRejected(proms[q].op, p.val, a, b)

\* the combinators and what a caller passes to each
FunctionTaking ==
  {"map", "mapError", "filter", "remove", "ifPresent", "ifEmpty", "ifThrown",
   "or", "orElse", "orElseGet", "orElseThrow"}

PromiseItemArgs(op) ==
  CASE op \in {"map", "mapError", "orElseGet"} ->
         {<<Fn("num", 2), Undef>>, <<Fn("throw", 3), Undef>>}
    [] op \in {"filter", "remove"} ->
         {<<Fn("true", 0), Undef>>, <<Fn("false", 0), Undef>>, <<Fn("throw", 3), Undef>>}
    [] op \in {"filterBy", "removeBy"} ->
         {<<Fn("prop", 2), Fn("true", 0)>>, <<Fn("prop", 2), Fn("throw", 3)>>,
          <<Fn("null", 0), Fn("true", 0)>>, <<Fn("throw", 3), Fn("false", 0)>>}
    [] op \in {"ifPresent", "ifEmpty", "ifThrown"} ->
         {<<Fn("void", 0), Undef>>, <<Fn("throw", 3), Undef>>}
    [] op \in {"isPresent", "isEmpty"} -> {<<Undef, Undef>>}
    [] op = "or" -> {<<Fn("item", 2), Undef>>, <<Fn("throw", 3), Undef>>}
    [] op = "orElse" -> {<<N(2), Undef>>}
    [] op = "orElseThrow" -> {<<x, Undef>> : x \in OrElseThrowArgs}

PromiseItemOps ==
  FunctionTaking \cup {"filterBy", "removeBy", "isPresent", "isEmpty"}

PromiseItemIds == 1..Len(proms)

\* PromiseItem.of(value): fulfilled at once by a plain value, pending on a
\* PromiseLike
PromiseItemOf(value) ==
  /\ proms = <<>>
  /\ proms' = Append(proms,
       IF value = Thenable THEN NewPromise("pending", Undef, "of", 0, <<value>>)
       ELSE NewPromise("fulfilled", value, "of", 0, <<value>>))
  /\ last' = Op("PromiseItem.of", 0, Len(proms) + 1, <<value>>, <<>>)
  /\ UNCHANGED <<its, flows, log, fresh, settled, task, sync, items>>

PromiseItemEmpty ==
  /\ proms = <<>>
  /\ proms' = Append(proms, NewPromise("fulfilled", Undef, "empty", 0, <<>>))
  /\ last' = Op("PromiseItem.empty", 0, Len(proms) + 1, <<>>, <<>>)
  /\ UNCHANGED <<its, flows, log, fresh, settled, task, sync, items>>

\* the PromiseLike a PromiseItem was made of settles
ThenableSettles(p, st, val) ==
  /\ proms[p].op = "of"
  /\ proms[p].st = "pending"
  /\ proms' = [proms EXCEPT ![p].st = st, ![p].val = val]
  /\ UNCHANGED <<its, flows, log, last, fresh, settled, task, sync, items>>

\* p.<op>(a, b): the executor registers the reaction and the call returns
\* the new PromiseItem
PromiseItemCall(p, op, args) ==
  /\ Len(proms) < MaxProms
  /\ proms' = Append(proms, NewPromise("pending", Undef, op, p, args))
  /\ last' = Op("PromiseItem", p, Len(proms) + 1, args, Return(N(Len(proms) + 1)))
  /\ UNCHANGED <<its, flows, log, fresh, settled, task, sync, items>>

\* the reaction job of q runs
React(q) ==
  /\ proms[q].recv # 0
  /\ ~proms[q].ran
  /\ Settled(proms[q].recv)
  /\ proms' = [proms EXCEPT ![q].ran = TRUE,
                            ![q].st = Reaction(q).how,
                            ![q].val = Reaction(q).value,
                            ![q].calls = Reaction(q).calls]
  /\ UNCHANGED <<its, flows, log, last, fresh, settled, task, sync, items>>

(***************************************************************************)
(* Specifications.                                                         *)
(***************************************************************************)
InitFlow ==
  /\ its = <<>>
  /\ flows = <<>>
  /\ log = <<>>
  /\ fresh = 0
  /\ last = Op("init", 0, 0, <<>>, <<>>)
  /\ settled = {}
  /\ task = Idle
  /\ sync = <<>>
  /\ items = <<>>
  /\ proms = <<>>

\* Flow: sources spliced by append / prepend, drained any number of times
NextFlow ==
  \/ \E a \in ArgLists : FlowOf(a)
  \/ \E f \in FlowIds, a \in ArgLists : FlowAppend(f, a)
  \/ \E f \in FlowIds, a \in ArgLists : FlowPrepend(f, a)
  \/ \E f \in FlowIds : FlowToArray(f)

SpecFlow == InitFlow /\ [][NextFlow]_vars

Terminals == {"toArray", "some", "every", "findFirst", "count"}

Consumed == last.op \in Terminals

\* Flow: a pipeline of combinators, consumed by one terminal operation
NextPipe ==
  /\ ~Consumed
  /\ \/ \E k \in 1..MaxLen : FlowOf(Values(k))
     \/ \E f \in FlowIds, k \in 1..MaxLen : FlowAppend(f, Values(k))
     \/ \E f \in FlowIds, m \in Mappers : FlowMap(f, m)
     \/ \E f \in FlowIds, p \in Predicates : FlowFilter(f, p)
     \/ \E f \in FlowIds : FlowPeek(f)
     \/ \E f \in FlowIds, c \in Comparators : FlowSort(f, c)
     \/ \E f \in FlowIds, x \in Extractors : FlowSortBy(f, x, "asc")
     \/ \E f \in FlowIds : FlowReverse(f)
     \/ \E f \in FlowIds : FlowDistinct(f)
     \/ \E f \in FlowIds : FlowToArray(f)
     \/ \E f \in FlowIds, p \in Predicates : FlowSome(f, p)
     \/ \E f \in FlowIds, p \in Predicates : FlowEvery(f, p)
     \/ \E f \in FlowIds : FlowFindFirst(f)

SpecPipe == InitFlow /\ [][NextPipe]_vars

\* PromiseFlow: sources spliced by append / prepend, read by one toArray
\* while the pending values settle in any order
NextPromise ==
  \/ \E a \in PromiseArgLists : PromiseFlowOf(a)
  \/ \E f \in ChainEnd, a \in PromiseArgLists : PromiseFlowAppend(f, a)
  \/ \E f \in ChainEnd, a \in PromiseArgLists : PromiseFlowPrepend(f, a)
  \/ \E f \in ChainEnd : PromiseFlowToArray(f)
  \/ \E n \in 1..fresh : Settle(n)
  \/ ToArrayStep

SpecPromise == InitFlow /\ [][NextPromise]_vars

\* EntryFlow: sources spliced by append / prepend, drained any number of times
NextEntry ==
  \/ \E a \in EntryArgs : EntryFlowOf(a)
  \/ \E f \in EntryFlowIds, a \in EntryArgs : EntryFlowAppend(f, a)
  \/ \E f \in EntryFlowIds, a \in EntryArgs : EntryFlowPrepend(f, a)
  \/ \E f \in EntryFlowIds : EntryFlowToArray(f)

SpecEntry == InitFlow /\ [][NextEntry]_vars

\* the keys of the pair sequences handed to collapseKeys and grouping
Keys == {Str(<<97>>), Str(<<98>>), N(0), Bool(FALSE)}

\* the pair sequences: any keys, the values 1, 2, ... by position
KeyedPairs ==
  UNION {{[i \in 1..k |-> <<ks[i], N(i)>>] : ks \in [1..k -> Keys]} :
           k \in 0..MaxPairs}

\* EntryFlow: collapseKeys and grouping over one pair sequence
NextGroup ==
  /\ ~Consumed
  /\ \/ \E ps \in KeyedPairs : EntryFlowOf(Entries(ps))
     \/ \E f \in EntryFlowIds : EntryFlowCollapseKeys(f)
     \/ \E f \in EntryFlowIds : EntryFlowGrouping(f)
     \/ \E f \in EntryFlowIds : EntryFlowToArray(f)

SpecGroup == InitFlow /\ [][NextGroup]_vars

\* Item: built, transformed, unwrapped and bridged to a Flow
NextItem ==
  \/ \E v \in ItemValues : CallItemOf(v)
  \/ CallItemEmpty
  \/ \E i \in ItemIds, m \in ItemMappers : ItemMap(i, m)
  \/ \E i \in ItemIds, p \in ItemPredicates : ItemFilter(i, p)
  \/ \E i \in ItemIds, x \in ItemMappers, p \in ItemPredicates : ItemFilterBy(i, x, p)
  \/ \E i \in ItemIds : ItemGet(i)
  \/ \E i \in ItemIds : ItemFlow(i)
  \/ \E f \in FlowIds : ~Consumed /\ FlowFindFirst(f)
  \/ \E f \in FlowIds : ~Consumed /\ FlowCount(f)

SpecItem == InitFlow /\ [][NextItem]_vars

\* Item and PromiseItem: one box per run, synchronous or asynchronous, with
\* orElseThrow on the one and every combinator on the other
NextOptional ==
  \/ \E v \in ItemValues : proms = <<>> /\ CallItemOf(v)
  \/ proms = <<>> /\ CallItemEmpty
  \/ \E i \in ItemIds, x \in OrElseThrowArgs : ItemOrElseThrow(i, x)
  \/ \E v \in {N(1), Null, Thenable} : items = <<>> /\ PromiseItemOf(v)
  \/ items = <<>> /\ PromiseItemEmpty
  \/ \E p \in PromiseItemIds, o \in {<<"fulfilled", N(1)>>, <<"fulfilled", Undef>>,
                                       <<"rejected", Err(9)>>} :
        ThenableSettles(p, o[1], o[2])
  \/ \E p \in PromiseItemIds, op \in PromiseItemOps :
        \E args \in PromiseItemArgs(op) : PromiseItemCall(p, op, args)
  \/ \E q \in PromiseItemIds : React(q)

\* every reaction job that can run does run
SpecOptional ==
  /\ InitFlow
  /\ [][NextOptional]_vars
  /\ \A q \in 1..MaxProms : WF_vars(q \in PromiseItemIds /\ React(q))

\* the integers handed to sort() and distinct(): one and two digits, repeated
OrderValues == {2, 9, 10}

OrderArgLists ==
  UNION {{[i \in 1..k |-> N(ns[i])] : ns \in [1..k -> OrderValues]} : k \in PendingLens}

\* sort() and distinct() of Flow and of PromiseFlow over those integers
NextOrder ==
  \/ /\ ~Consumed
     /\ \/ \E a \in OrderArgLists : FlowOf(a)
        \/ \E f \in FlowIds, a \in OrderArgLists : FlowAppend(f, a)
        \/ \E f \in FlowIds : FlowSort(f, "default")
        \/ \E f \in FlowIds : FlowDistinct(f)
        \/ \E f \in FlowIds : FlowToArray(f)
  \/ \E a \in OrderArgLists : PromiseFlowOf(a)
  \/ \E f \in ChainEnd, a \in OrderArgLists : PromiseFlowAppend(f, a)
  \/ \E f \in ChainEnd : PromiseFlowSort(f, "default")
  \/ \E f \in ChainEnd : PromiseFlowDistinct(f)
  \/ \E f \in ChainEnd : PromiseFlowToArray(f)
  \/ \E n \in OrderValues : Settle(n)
  \/ ToArrayStep

SpecOrder == InitFlow /\ [][NextOrder]_vars

\* EntryFlow: filter, filterKeys and filterValues with predicates over the index
NextEntryFilter ==
  /\ ~Consumed
  /\ \/ \E k \in 0..MaxPairs : EntryFlowOf(Entries(Pairs(k)))
     \/ \E f \in EntryFlowIds, p \in EntryPredicates : EntryFlowFilter(f, p)
     \/ \E f \in EntryFlowIds, p \in EntryPredicates : EntryFlowFilterKeys(f, p)
     \/ \E f \in EntryFlowIds, p \in EntryPredicates : EntryFlowFilterValues(f, p)
     \/ \E f \in EntryFlowIds : EntryFlowToArray(f)

SpecEntryFilter == InitFlow /\ [][NextEntryFilter]_vars

\* sort / sortBy / reverse / distinct of Flow and of PromiseFlow, each read
\* by one toArray
NextMaterial ==
  \/ /\ ~Consumed
     /\ \/ \E k \in 1..MaxLen : FlowOf(Values(k))
        \/ \E f \in FlowIds, k \in 1..MaxLen : FlowAppend(f, Values(k))
        \/ \E f \in FlowIds, c \in Comparators : FlowSort(f, c)
        \/ \E f \in FlowIds, x \in Extractors : FlowSortBy(f, x, "asc")
        \/ \E f \in FlowIds : FlowReverse(f)
        \/ \E f \in FlowIds : FlowDistinct(f)
        \/ \E f \in FlowIds : FlowToArray(f)
  \/ \E k \in PendingLens : PromiseFlowOf(Values(k))
  \/ \E f \in ChainEnd, k \in PendingLens : PromiseFlowAppend(f, Values(k))
  \/ \E f \in ChainEnd, c \in Comparators : PromiseFlowSort(f, c)
  \/ \E f \in ChainEnd, x \in Extractors : PromiseFlowSortBy(f, x, "asc")
  \/ \E f \in ChainEnd : PromiseFlowReverse(f)
  \/ \E f \in ChainEnd : PromiseFlowDistinct(f)
  \/ \E f \in ChainEnd : PromiseFlowToArray(f)
  \/ \E n \in 1..fresh : Settle(n)
  \/ ToArrayStep

SpecMaterial == InitFlow /\ [][NextMaterial]_vars

(***************************************************************************)
(* What a pipeline would deliver to toArray if it were drained now, and    *)
(* the elements of an argument list.                                       *)
(***************************************************************************)
Elems(f) == Drain(flows[f].iterators, Heap).out

ArgElems(args) ==
  IF Len(args) = 1 /\ args[1].t \in {"array", "set", "iter"}
  THEN [i \in 1..Len(args[1].e) |-> N(args[1].e[i])]
  ELSE args

(***************************************************************************)
(* C1: s.append(x) delivers the elements of s in their order followed by   *)
(* the elements of x, and s.prepend(x) delivers the elements of x followed *)
(* by those of s, whatever chain of append and prepend calls built s and   *)
(* whatever shape x has (one value, several values, an array, a Set, an    *)
(* iterator); toArray returns what the pipeline held.                      *)
(***************************************************************************)
C1_AppendPrependOrder ==
  /\ last.op = "append" =>
       Elems(last.res) = Elems(last.recv) \o ArgElems(last.args)
  /\ last.op = "prepend" =>
       Elems(last.res) = ArgElems(last.args) \o Elems(last.recv)
  /\ last.op = "toArray" =>
       last.ret = Drain(flows[last.recv].iterators,
                        [its |-> last.pre, log |-> <<>>]).out

\* of(1,2).append(3,4).prepend(5) holds [5,1,2,3,4]
C1_Witness ==
  /\ last.op = "prepend"
  /\ Len(flows[last.res].iterators) = 3
  /\ Elems(last.res) = <<N(5), N(1), N(2), N(3), N(4)>>

(***************************************************************************)
(* The receiver of the last operation as it was when the operation began.  *)
(***************************************************************************)
PreHeap == [its |-> last.pre, log |-> <<>>]

PreSources == flows[last.recv].iterators

\* what the receiver would have delivered, had it been drained instead
PreElems == Drain(PreSources, PreHeap).out

\* n successive next() calls on the receiver, and nothing more
RECURSIVE TakeFrom(_, _, _, _)
TakeFrom(ups, i, h, n) ==
  IF n = 0 THEN h
  ELSE LET r == PullConcat(ups, i, h) IN
       IF r.ok THEN TakeFrom(ups, r.cur, r.h, n - 1) ELSE r.h

\* the position of the first element on which predicate p answers want
FirstAt(E, p, want) ==
  LET hits == {i \in 1..Len(E) : Test(p, E[i], i - 1) = want} IN
  IF hits = {} THEN Len(E) + 1
  ELSE CHOOSE i \in hits : \A j \in hits : i <= j

Unpulled(heapIts) == [id \in 1..Len(heapIts) |-> heapIts[id].buf]

ByTerminal(c) == c[1] = 0

ByStage(c) == c[1] # 0

\* the elements the terminal operation's own predicate was evaluated on
Evaluated == [i \in 1..Len(SelectSeq(log, ByTerminal)) |->
                SelectSeq(log, ByTerminal)[i][3]]

\* the heap after the receiver delivered its first n elements (all of them
\* and its end, when it has fewer)
AfterDelivering(n) ==
  IF n <= Len(PreElems) THEN TakeFrom(PreSources, 1, PreHeap, n)
  ELSE Drain(PreSources, PreHeap).h

PulledExactly(n) ==
  /\ Unpulled(its) = Unpulled(AfterDelivering(n).its)
  /\ SelectSeq(log, ByStage) = SelectSeq(AfterDelivering(n).log, ByStage)

(***************************************************************************)
(* C4: some(p) evaluates p on exactly the elements up to and including the *)
(* first one satisfying p, and pulls from the sources (and runs the lazy   *)
(* stages) no further than delivering that element takes; every(p) does    *)
(* the same up to the first element falsifying p; findFirst pulls one      *)
(* element (none from an empty pipeline).                                  *)
(***************************************************************************)
C4_ShortCircuit ==
  /\ last.op \in {"some", "every"} =>
       LET k == FirstAt(PreElems, last.args[1], last.op = "some") IN
       /\ last.ret = IF last.op = "some" THEN k <= Len(PreElems)
                     ELSE k > Len(PreElems)
       /\ Evaluated = SubSeq(PreElems, 1, IF k <= Len(PreElems) THEN k
                                          ELSE Len(PreElems))
       /\ PulledExactly(k)
  /\ last.op = "findFirst" =>
       /\ last.ret = IF PreElems = <<>> THEN ItemEmpty ELSE ItemOf(PreElems[1])
       /\ PulledExactly(1)

\* some(x => x > 1) behind a lazy stage answers true after two evaluations
\* and leaves a later source untouched
C4_Witness ==
  /\ last.op = "some"
  /\ last.args[1] = "gt1"
  /\ last.ret = TRUE
  /\ Len(Evaluated) = 2
  /\ its[PreSources[1]].kind # "array"
  /\ \E id \in 1..Len(last.pre) :
       /\ its[id].kind = "array"
       /\ its[id].buf # <<>>
       /\ its[id].buf = last.pre[id].buf

(***************************************************************************)
(* C5: calling a combinator (append, prepend, map, filter, peek, sort,     *)
(* sortBy, reverse, distinct) pulls nothing: every iterator that existed   *)
(* before the call is, after it, as it was.                                *)
(***************************************************************************)
Combinators ==
  {"append", "prepend", "map", "filter", "peek", "sort", "sortBy", "reverse",
   "distinct"}

C5_CombinatorsPullNothing ==
  last.op \in Combinators =>
    \A id \in 1..Len(last.pre) : its[id] = last.pre[id]

(***************************************************************************)
(* C2: toArray of a PromiseFlow built by a chain of of / append / prepend  *)
(* calls resolves to the elements, in the order, that the Flow built by    *)
(* the same chain over the same values delivers.                           *)
(***************************************************************************)
RECURSIVE Held(_, _)
Held(ids, heapIts) ==
  IF ids = <<>> THEN <<>>
  ELSE heapIts[Head(ids)].buf \o Held(Tail(ids), heapIts)

C2_AsyncMatchesSync ==
  task.st = "done" => task.out = Held(sync[task.f], last.pre)

(***************************************************************************)
(* C6: the pipeline returned by sort, sortBy, reverse or distinct delivers *)
(* no element before every upstream source has been pulled to its end, in  *)
(* source-list order.  Flow: when the combinator returns, the receiver's   *)
(* sources are at their end and the result holds the output computed from  *)
(* all their elements.  PromiseFlow: whatever the order in which the       *)
(* pending values settle, a generator that has delivered an element has    *)
(* its upstream at its end, what it has collected so far is the upstream's *)
(* elements in source-list order, and toArray resolves to the output       *)
(* computed from all of them.                                              *)
(***************************************************************************)
Materializers == {"sort", "sortBy", "reverse", "distinct"}

AtEnd(ups) ==
  \A i \in 1..Len(ups) :
    IF its[ups[i]].kind \in {"array", "promises"} THEN its[ups[i]].buf = <<>>
    ELSE its[ups[i]].st = "done"

\* what an asynchronous pipeline delivers once every pending value settled
RECURSIVE AsyncDrainFrom(_, _, _, _)
AsyncDrainFrom(ups, i, h, out) ==
  LET r == AsyncPullConcat(ups, i, h, 1..fresh) IN
  IF r.res = "val" THEN AsyncDrainFrom(ups, r.cur, r.h, Append(out, r.val))
  ELSE out

AsyncElems(ups, heapIts) == AsyncDrainFrom(ups, 1, [its |-> heapIts, log |-> <<>>], <<>>)

\* the generators that have handed an element to their consumer
HasDelivered(id) ==
  \/ /\ task.st # "idle"
     /\ flows[task.f].iterators = <<id>>
     /\ task.out # <<>>
  \/ \E g \in 1..Len(its) :
       /\ its[g].kind \in Materializers
       /\ its[g].up = <<id>>
       /\ its[g].buf # <<>>

C6_DrainBeforeOutput ==
  /\ (last.op \in Materializers /\ flows[last.res].cls = "Flow") =>
       /\ AtEnd(PreSources)
       /\ its[Len(its)].buf =
            Materialized(last.op, PreElems, last.args[1], last.args[2])
  /\ \A id \in 1..Len(its) :
       (its[id].kind \in Materializers) =>
         /\ HasDelivered(id) => AtEnd(its[id].up)
         /\ its[id].st = "drain" =>
              its[id].buf \o AsyncElems(its[id].up, its)
                = AsyncElems(its[id].up, last.pre)
  /\ (task.st = "done" /\ its[flows[task.f].iterators[1]].kind \in Materializers) =>
       LET g == its[flows[task.f].iterators[1]] IN
       task.out = Materialized(g.kind, AsyncElems(g.up, last.pre), g.ex, g.fn)

\* a sort over two sources has handed toArray its first element
C6_Witness ==
  /\ task.st = "run"
  /\ Len(task.out) = 1
  /\ its[flows[task.f].iterators[1]].kind = "sort"
  /\ Len(its[flows[task.f].iterators[1]].up) = 2
  /\ Len(AsyncElems(its[flows[task.f].iterators[1]].up, last.pre)) > 2

(***************************************************************************)
(* C3: for an EntryFlow s and a pair source x (an iterator of pairs, a Map *)
(* or a plain record), s.append(x) delivers the pairs of s followed by     *)
(* those of x and s.prepend(x) the pairs of x followed by those of s.      *)
(***************************************************************************)
C3_EntryAppendPrependOrder ==
  (last.op \in {"append", "prepend"} /\ flows[last.res].cls = "EntryFlow") =>
     Elems(last.res) = IF last.op = "append"
                       THEN Elems(last.recv) \o last.args[1].e
                       ELSE last.args[1].e \o Elems(last.recv)

(***************************************************************************)
(* C7: collapseKeys delivers one pair per maximal run of consecutive       *)
(* equal-key pairs, in run order: the run's key with the run's values in   *)
(* order, whatever the keys are.                                           *)
(***************************************************************************)
\* the last position of the run that starts at position i
RECURSIVE RunEnd(_, _)
RunEnd(ps, i) ==
  IF i < Len(ps) /\ ps[i + 1][1] = ps[i][1] THEN RunEnd(ps, i + 1) ELSE i

RECURSIVE RunsFrom(_, _)
RunsFrom(ps, i) ==
  IF i > Len(ps) THEN <<>>
  ELSE <<<<ps[i][1], [j \in 1..(RunEnd(ps, i) - i + 1) |-> ps[i + j - 1][2]]>>>>
         \o RunsFrom(ps, RunEnd(ps, i) + 1)

C7_CollapseKeysRuns ==
  last.op = "collapseKeys" => Elems(last.res) = RunsFrom(Elems(last.recv), 1)

(***************************************************************************)
(* C8: grouping delivers one pair per distinct key, in the order in which  *)
(* the keys are first seen, with all the values that occurred with the     *)
(* key, in input order, adjacent or not.                                   *)
(***************************************************************************)
KeysOf(ps) == [i \in 1..Len(ps) |-> ps[i][1]]

ValuesWith(ps, key) ==
  LET at == {i \in 1..Len(ps) : ps[i][1] = key}
      nth[n \in 1..Cardinality(at)] ==
        CHOOSE i \in at : Cardinality({j \in at : j < i}) = n - 1
  IN [n \in 1..Cardinality(at) |-> ps[nth[n]][2]]

FirstSeen(ps) ==
  LET firsts == {i \in 1..Len(ps) : \A j \in 1..(i - 1) : ps[j][1] # ps[i][1]}
      nth[n \in 1..Cardinality(firsts)] ==
        CHOOSE i \in firsts : Cardinality({j \in firsts : j < i}) = n - 1
  IN [n \in 1..Cardinality(firsts) |-> ps[nth[n]][1]]

C8_GroupingByKey ==
  last.op = "grouping" =>
    LET ps == Elems(last.recv) IN
    Elems(last.res) =
      [n \in 1..Len(FirstSeen(ps)) |->
         <<FirstSeen(ps)[n], ValuesWith(ps, FirstSeen(ps)[n])>>]

\* grouping over keys a, a, b, a: the last a is not adjacent to the first two
C8_Witness ==
  /\ last.op = "grouping"
  /\ KeysOf(Elems(last.recv)) = <<Str(<<97>>), Str(<<97>>), Str(<<98>>), Str(<<97>>)>>
  /\ Elems(last.res) = << <<Str(<<97>>), <<N(1), N(2), N(4)>>>>,
                          <<Str(<<98>>), <<N(3)>>>> >>

(***************************************************************************)
(* C9: for every present value v of any type (number, string, array, Set,  *)
(* object) Item.of(v).flow() holds the one element v and                   *)
(* Item.of(v).flow().findFirst().get() returns v; the flow of an empty     *)
(* Item counts 0 elements.                                                 *)
(***************************************************************************)
C9_OptionalRoundTrip ==
  last.op = "Item.flow" =>
    LET item == items[last.recv]
        ups == flows[last.res].iterators
    IN IF IsEmpty(item) THEN CountFrom(ups, Heap).ret = 0
       ELSE /\ Elems(last.res) = <<item.value>>
            /\ Get(FindFirstFrom(ups, Heap).ret) = Return(item.value)

(***************************************************************************)
(* C10: get() on an empty Item, however the Item came to be empty          *)
(* (empty(), of(null), of(undefined), or map / filter / filterBy), throws  *)
(* an EmptyValueError and never returns an absent value.                   *)
(***************************************************************************)
C10_GetOnEmptyThrows ==
  (last.op = "Item.get" /\ IsEmpty(items[last.recv])) =>
     /\ last.ret.how = "throw"
     /\ last.ret.value.t = "EmptyValueError"

(***************************************************************************)
(* C11: orElseThrow(e) with an error value e and orElseThrow(sup) with a   *)
(* supplier, on Item and on PromiseItem: on an empty box the failure       *)
(* raised (the throw, or the rejection) is exactly e, respectively exactly *)
(* what sup() returns; on a present box the value is returned, nothing is  *)
(* raised and sup is not called.                                           *)
(***************************************************************************)
\* the failure the caller asked for
Asked(x) == IF IsFunction(x) THEN CallFn(x, Undef).value ELSE x

\* the supplier returns: a supplier that itself throws is not constrained
Supplies(x) == IsFunction(x) => CallFn(x, Undef).how = "return"

C11_OrElseThrow ==
  /\ last.op = "Item.orElseThrow" =>
       LET item == items[last.recv]
           x == last.args[1]
       IN IF IsEmpty(item)
          THEN Supplies(x) => last.ret.end = Throw(Asked(x))
          ELSE last.ret = [end |-> Return(item.value), calls |-> <<>>]
  /\ \A q \in PromiseItemIds :
       (proms[q].op = "orElseThrow" /\ proms[q].ran
          /\ proms[proms[q].recv].st = "fulfilled") =>
         LET value == proms[proms[q].recv].val
             x == proms[q].args[1]
         IN IF IsNullish(value)
            THEN Supplies(x) => (proms[q].st = "rejected" /\ proms[q].val = Asked(x))
            ELSE proms[q].st = "fulfilled" /\ proms[q].val = value
                 /\ proms[q].calls = <<>>

(***************************************************************************)
(* C12: a PromiseItem combinator that calls a function of the caller       *)
(* during resolution (map, filter, filterBy, remove, removeBy, ifPresent,  *)
(* ifEmpty, or, orElseGet, orElseThrow) returns without throwing, and when *)
(* the function throws as it is called the PromiseItem returned is         *)
(* rejected with the error thrown.                                         *)
(***************************************************************************)
Wrapping ==
  {"map", "filter", "filterBy", "remove", "removeBy", "ifPresent", "ifEmpty",
   "or", "orElseGet", "orElseThrow"}

\* what the i-th function called by the reaction of q was called with
CalledWith(q, i) ==
  IF i = 2 THEN CallFn(proms[q].calls[1], proms[proms[q].recv].val).value
  ELSE IF proms[q].op \in {"map", "filter", "filterBy", "remove", "removeBy", "ifPresent"}
       THEN proms[proms[q].recv].val
       ELSE Undef

C12_ThrowBecomesRejection ==
  /\ last.op = "PromiseItem" => last.ret.how = "return"
  /\ \A q \in PromiseItemIds :
       (proms[q].op \in Wrapping /\ proms[q].ran) =>
         \A i \in 1..Len(proms[q].calls) :
           LET c == CallFn(proms[q].calls[i], CalledWith(q, i)) IN
           c.how = "throw" => (proms[q].st = "rejected" /\ proms[q].val = c.value)

(***************************************************************************)
(* C19: the PromiseItem returned by any combinator eventually settles once *)
(* its receiver has settled, whether the receiver was fulfilled or         *)
(* rejected and whether or not the function supplied throws.               *)
(***************************************************************************)
ReceiverSettled(q) ==
  q \in PromiseItemIds /\ proms[q].recv # 0 /\ Settled(proms[q].recv)

HasSettled(q) == q \in PromiseItemIds /\ Settled(q)

C19_EventuallySettles ==
  \A q \in 1..MaxProms : ReceiverSettled(q) ~> HasSettled(q)

(***************************************************************************)
(* C13: for a PromiseFlow made of the pending values p1..pn, toArray       *)
(* delivers their values in the order p1..pn whatever the order in which   *)
(* they settle: element i+1 is delivered only after element i, each only   *)
(* once it has settled, and the array is complete when toArray ends.       *)
(***************************************************************************)
\* toArray runs, or has run, on the PromiseFlow that of(...) returned
OfToArray == task.st # "idle" /\ task.f = 1

C13_SourceOrderWhateverSettles ==
  OfToArray =>
    /\ task.out = [i \in 1..Len(task.out) |-> N(i)]
    /\ \A i \in 1..Len(task.out) : i \in settled
    /\ task.st = "done" => its[1].buf = <<>>

\* p2 has settled before p1: toArray has delivered nothing and waits for p1
C13_Witness ==
  /\ OfToArray
  /\ task.st = "run"
  /\ Len(its[1].buf) = 2
  /\ settled = {2}
  /\ task.out = <<>>

(***************************************************************************)
(* C14: a Flow made by of from an array or a Set delivers the same         *)
(* elements in the same order each time it is drained: toArray() twice on  *)
(* the same instance returns the same array.                               *)
(***************************************************************************)
C14_ReiterationReproduces ==
  (last.op = "of" /\ flows[last.res].cls = "Flow" /\ Len(last.args) = 1
     /\ last.args[1].t \in {"array", "set"}) =>
    LET first == Drain(flows[last.res].iterators, Heap)
        second == Drain(flows[last.res].iterators, first.h)
    IN /\ first.out = ArgElems(last.args)
       /\ second.out = first.out

(***************************************************************************)
(* C15: no source iterator is held by two Flow instances, and draining     *)
(* t = s.append(x) or t = s.prepend(x) leaves the elements that s delivers *)
(* afterwards as they were.                                                *)
(***************************************************************************)
SourcesHeld(f) == {flows[f].iterators[i] : i \in 1..Len(flows[f].iterators)}

C15_ExclusiveSources ==
  /\ \A f, g \in FlowIds : f # g => SourcesHeld(f) \cap SourcesHeld(g) = {}
  /\ last.op = "toArray" =>
       \A g \in FlowIds \ {last.recv} :
         Elems(g) = Drain(flows[g].iterators, [its |-> last.pre, log |-> <<>>]).out

(***************************************************************************)
(* C16: sort() without a comparator, on a Flow and on a PromiseFlow of     *)
(* integers, delivers a permutation of the input in ascending numeric      *)
(* order.                                                                  *)
(***************************************************************************)
Ascending(xs) ==
  \A i, j \in 1..Len(xs) : i < j => xs[i].e[1] <= xs[j].e[1]

Occurrences(xs, v) == Cardinality({i \in 1..Len(xs) : xs[i] = v})

Permutation(xs, ys) ==
  /\ Len(xs) = Len(ys)
  /\ \A i \in 1..Len(xs) : Occurrences(xs, xs[i]) = Occurrences(ys, xs[i])

\* what an asynchronous pipeline delivers once every pending value settled
RECURSIVE AsyncDrainAll(_, _, _, _)
AsyncDrainAll(ups, i, h, out) ==
  LET r == AsyncPullConcat(ups, i, h, Int) IN
  IF r.res = "val" THEN AsyncDrainAll(ups, r.cur, r.h, Append(out, r.val))
  ELSE out

\* the elements the receiver of the finished toArray held when it was called
TaskInput ==
  AsyncDrainAll(its[flows[task.f].iterators[1]].up, 1,
                [its |-> last.pre, log |-> <<>>], <<>>)

\* toArray has ended on the PromiseFlow that kind() returned
TaskDoneOn(kind) ==
  /\ task.st = "done"
  /\ flows[task.f].iterators # <<>>
  /\ its[flows[task.f].iterators[1]].kind = kind

C16_DefaultSortNumeric ==
  /\ (last.op = "sort" /\ flows[last.res].cls = "Flow" /\ last.args[2] = "default") =>
       /\ Ascending(Elems(last.res))
       /\ Permutation(Elems(last.res), PreElems)
  /\ (TaskDoneOn("sort") /\ its[flows[task.f].iterators[1]].fn = "default") =>
       /\ Ascending(task.out)
       /\ Permutation(task.out, TaskInput)

(***************************************************************************)
(* C17: distinct(), on a Flow and on a PromiseFlow, also over several      *)
(* appended sources, delivers each distinct value once, in the order of    *)
(* its first occurrence in the composed input.                             *)
(***************************************************************************)
FirstOccurrences(xs) ==
  LET firsts == {i \in 1..Len(xs) : \A j \in 1..(i - 1) : xs[j] # xs[i]}
      nth[n \in 1..Cardinality(firsts)] ==
        CHOOSE i \in firsts : Cardinality({j \in firsts : j < i}) = n - 1
  IN [n \in 1..Cardinality(firsts) |-> xs[nth[n]]]

C17_DistinctFirstOccurrence ==
  /\ (last.op = "distinct" /\ flows[last.res].cls = "Flow") =>
       Elems(last.res) = FirstOccurrences(PreElems)
  /\ TaskDoneOn("distinct") =>
       task.out = FirstOccurrences(TaskInput)

\* of(9,2).append(9,10).distinct() over PromiseFlow sources: toArray ended
\* with each value once
C17_Witness ==
  /\ TaskDoneOn("distinct")
  /\ Len(its[flows[task.f].iterators[1]].up) = 2
  /\ Len(TaskInput) = 4
  /\ Len(task.out) = 3

(***************************************************************************)
(* C18: map fusion.  s.map(f).map(g) delivers the same elements in the     *)
(* same order as s.map(x => g(f(x))), and in both pipelines f and g are    *)
(* each applied once per element the terminal operation pulls.             *)
(***************************************************************************)
\* the name of x => g(f(x))
Compose(g, f) ==
  CASE g = "inc" /\ f = "inc" -> "inc.inc"
    [] g = "dbl" /\ f = "inc" -> "dbl.inc"
    [] g = "inc" /\ f = "dbl" -> "inc.dbl"
    [] g = "dbl" /\ f = "dbl" -> "dbl.dbl"

\* the last call was map(g) on a Flow that map(f) returned
MapOfMap ==
  /\ last.op = "map"
  /\ Len(flows[last.recv].iterators) = 1
  /\ its[flows[last.recv].iterators[1]].kind = "map"

\* the generators of s.map(f) and of s.map(f).map(g)
Inner == flows[last.recv].iterators[1]
Outer == flows[last.res].iterators[1]

\* the heap with s.map(x => g(f(x))) built on the sources of s, as its last
\* iterator
Fused ==
  [its |-> Append(its, Generator("map", its[Inner].up,
                                 Compose(its[Outer].fn, its[Inner].fn))),
   log |-> <<>>]

\* the calls generator who has made in log l
CallsBy(l, who) == Cardinality({i \in 1..Len(l) : l[i][1] = who})

C18_MapFusion ==
  MapOfMap =>
    LET chained == Drain(<<Outer>>, Heap)
        fused == Drain(<<Len(its) + 1>>, Fused)
        first == FindFirstFrom(<<Outer>>, Heap)
        pulled == IF Len(chained.out) = 0 THEN 0 ELSE 1
    IN /\ chained.out = fused.out
       /\ CallsBy(chained.h.log, Inner) = Len(chained.out)
       /\ CallsBy(chained.h.log, Outer) = Len(chained.out)
       /\ CallsBy(fused.h.log, Len(its) + 1) = Len(fused.out)
       /\ CallsBy(first.h.log, Inner) = pulled
       /\ CallsBy(first.h.log, Outer) = pulled

\* of(1,2).map(inc).map(dbl) delivers [4,6]
C18_Witness ==
  /\ MapOfMap
  /\ its[Inner].fn = "inc"
  /\ its[Outer].fn = "dbl"
  /\ Elems(last.res) = <<N(4), N(6)>>

(***************************************************************************)
(* C20: the filters of EntryFlow hand the predicate the zero-based         *)
(* position of the pair in the upstream sequence, filterValues as filter   *)
(* and filterKeys do, whether or not earlier pairs were rejected: a        *)
(* predicate over the index keeps exactly the pairs at the upstream        *)
(* positions that satisfy it, unchanged.                                   *)
(***************************************************************************)
\* the pairs of ps at the positions the predicate accepts
KeptAt(ps, fn) ==
  LET at == {i \in 1..Len(ps) : EntryTest(fn, ps[i], i - 1)}
      nth[n \in 1..Cardinality(at)] ==
        CHOOSE i \in at : Cardinality({j \in at : j < i}) = n - 1
  IN [n \in 1..Cardinality(at) |-> ps[nth[n]]]

C20_FilterValuesIndex ==
  last.op \in EntryFilters => Elems(last.res) = KeptAt(Elems(last.recv), last.args[1])

====
